---- MODULE Spec2Model ----
(***************************************************************************)
(* Model of ItineraryGenerator (Back End/itinerary/                        *)
(* PYTHON_SCRIPT_WITH_REAL_DATA.py): scoring, selection, the greedy route  *)
(* walk, day assignment and the budget estimate of one request.            *)
(*                                                                         *)
(* Number representation.  Ratings, preference percentages and distances   *)
(* are integers.  A weighted score s is held as the integer 200*s, the    *)
(* minimum budget b as 100*num_travelers*b and the actual budget b as      *)
(* 1000*num_travelers*b, so every product and quotient the code takes is   *)
(* exact.                                                                  *)
(***************************************************************************)
EXTENDS Integers, Sequences, FiniteSets, TLC

VARIABLES
    location_data,        \* self.location_data / self.original_df (catalog rows, in order)
    distance_data,        \* self.distances_df (rows, in order)
    pc,                   \* position inside optimize_itinerary
    params,               \* the arguments of the current request
    trip_duration,        \* (end - start).days + 1
    min_budget,           \* calculate_min_budget(...), scaled
    season_suitable,      \* place_id -> season_suitable column of apply_preferences
    aggregated_scores,    \* place_id -> summed weighted_score, scaled by 200
    mandatory_df,         \* rows of the catalog that are mandatory (and not excluded)
    selection_df,         \* the scored, sorted pool
    final_locations,      \* mandatory_df followed by the taken pool rows
    ordered_locations,    \* the route built so far
    remaining_locations,  \* the unvisited list
    current_total_distance,
    loop_exit,            \* why the greedy loop ended
    itinerary,            \* result of _assign_days_to_locations
    actual_budget,        \* _calculate_actual_budget(...), scaled
    json_result,          \* the dictionary built by to_json
    self_trip_start_date, \* self.trip_start_date
    call_no,              \* number of calls started on this instance
    first_call,           \* what the first call returned
    tie_order             \* the order the build's sort leaves equal scores in

vars == <<location_data, distance_data, pc, params, trip_duration, min_budget,
          season_suitable, aggregated_scores, mandatory_df, selection_df,
          final_locations, ordered_locations, remaining_locations,
          current_total_distance, loop_exit, itinerary, actual_budget,
          json_result, self_trip_start_date, call_no, first_call, tie_order>>

(***************************************************************************)
(* Bounds of the request space.                                            *)
(***************************************************************************)
MaxExcluded == 1
MaxInterests == 1
MaxTravelers == 2

\* route lengths and durations for which day assignment is tabulated
MaxRouteLength == 6
MaxDuration == 8

(***************************************************************************)
(* Inputs: catalogs, distance tables, dates, preferences.                  *)
(***************************************************************************)
Loc(id, nm, ty, r, s) ==
    [place_id |-> id, name |-> nm, type |-> ty, rating |-> r, season |-> s]

Catalog ==
    << Loc(1, "Colombo", <<"City">>, 4, {"DEC-APR", "JUN-SEP"}),
       Loc(2, "Bentota", <<"Beach">>, 5, {"DEC-APR"}),
       Loc(3, "Arugam Bay", <<"Beach", "Adventure">>, 4, {"JUN-SEP"}),
       Loc(4, "Ella", <<"HillCountry">>, 3, {}) >>

Edge(f, t, d) == [place_id_from |-> f, place_id_to |-> t, distance_km |-> d]

\* every pair known, short legs; 3 and 4 are equally far from 2
DistancesNear ==
    << Edge(1, 2, 60), Edge(1, 3, 130), Edge(1, 4, 90),
       Edge(2, 3, 80), Edge(2, 4, 80), Edge(3, 4, 40) >>

\* long legs; pair (1,2) recorded in both directions with different values
DistancesFar ==
    << Edge(1, 2, 200), Edge(2, 1, 90), Edge(1, 3, 330), Edge(3, 2, 100),
       Edge(4, 1, 160), Edge(2, 4, 140), Edge(4, 3, 500) >>

\* pairs (1,3), (1,4) and (2,4) have no row
DistancesSparse ==
    << Edge(2, 1, 120), Edge(3, 2, 140), Edge(3, 4, 20) >>

DistanceTables == {DistancesNear, DistancesFar, DistancesSparse}

\* the catalogs an instance is built from: the four locations, or none
Catalogs == {Catalog, << >>}

\* <<start, end>> pairs: one to three days, end before start, long trips
TripDates ==
    { << <<2025, 5, 30>>, <<2025, 5, 30>> >>, << <<2025, 5, 30>>, <<2025, 5, 31>> >>,
      << <<2025, 5, 30>>, <<2025, 6, 1>> >>,  << <<2025, 6, 1>>, <<2025, 6, 1>> >>,
      << <<2025, 6, 1>>, <<2025, 5, 31>> >>,  << <<2025, 6, 1>>, <<2025, 5, 30>> >>,
      << <<2025, 11, 10>>, <<2025, 5, 30>> >>, << <<2025, 5, 30>>, <<2025, 11, 10>> >>,
      << <<2025, 11, 10>>, <<2026, 1, 2>> >> }

PreferenceMaps ==
    { ("Beach" :> 100) @@ ("Adventure" :> 50),
      ("City" :> 50) @@ ("HillCountry" :> 50) @@ ("Adventure" :> 50) }

PaceNames == {"Fast-Paced", "Balanced", "Relaxing"}

CatalogNames == { Catalog[i].name : i \in 1..Len(Catalog) }
CatalogIds == { Catalog[i].place_id : i \in 1..Len(Catalog) }
MandatoryNames == {"Colombo", "Bentota", "Arugam Bay", "Atlantis"}
ExcludedNames == {"Colombo", "Bentota"}
InterestIds == {2, 4}

BoundedSubsets(S, n) == { T \in SUBSET S : Cardinality(T) <= n }

(***************************************************************************)
(* datetime: ordinal of a date, difference in days, month.                 *)
(***************************************************************************)
IsLeap(y) == (y % 4 = 0) /\ ((y % 100 # 0) \/ (y % 400 = 0))

DaysInMonth(y, m) ==
    IF m = 2 THEN (IF IsLeap(y) THEN 29 ELSE 28)
    ELSE IF m \in {4, 6, 9, 11} THEN 30 ELSE 31

RECURSIVE DaysBeforeMonth(_, _)
DaysBeforeMonth(y, m) ==
    IF m = 1 THEN 0 ELSE DaysBeforeMonth(y, m - 1) + DaysInMonth(y, m - 1)

DaysBeforeYear(y) ==
    (y - 1) * 365 + ((y - 1) \div 4) - ((y - 1) \div 100) + ((y - 1) \div 400)

ToOrdinal(date) ==
    DaysBeforeYear(date[1]) + DaysBeforeMonth(date[1], date[2]) + date[3]

Month(date) == date[2]

TripDuration(start, end) == (ToOrdinal(end) - ToOrdinal(start)) + 1

(***************************************************************************)
(* generate_pace_options, calculate_min_budget                             *)
(***************************************************************************)
PaceOptions ==
    [ p \in PaceNames |->
        IF p = "Fast-Paced" THEN [locations_per_day |-> 4, distance_per_day_km |-> 500]
        ELSE IF p = "Balanced" THEN [locations_per_day |-> 3, distance_per_day_km |-> 300]
        ELSE [locations_per_day |-> 2, distance_per_day_km |-> 150] ]

\* distance_factor = km * 0.2; transportation = distance_factor * d / n;
\* other = 50 * d.  Result scaled by 100 * n.
CalculateMinBudget(d, pace, n) ==
    PaceOptions[pace].distance_per_day_km * 20 * d + 50 * d * 100 * n

(***************************************************************************)
(* _is_season_suitable                                                     *)
(***************************************************************************)
IsSeasonSuitable_StartOnly(season, start, end) ==
    LET start_month == Month(start)
    IN \/ "DEC-APR" \in season /\ (start_month >= 12 \/ start_month <= 4)
       \/ "JUN-SEP" \in season /\ (start_month >= 6 /\ start_month <= 9)

IsSeasonSuitable(season, start, end) ==
    LET start_month == Month(start)
        end_month == Month(end)
        dec_apr_suitable ==
            /\ "DEC-APR" \in season
            /\ \/ (start_month >= 12 \/ start_month <= 4)
               \/ (end_month >= 12 \/ end_month <= 4)
        jun_sep_suitable ==
            /\ "JUN-SEP" \in season
            /\ \/ (start_month >= 6 /\ start_month <= 9)
               \/ (end_month >= 6 /\ end_month <= 9)
    IN dec_apr_suitable \/ jun_sep_suitable

(***************************************************************************)
(* apply_preferences and the groupby("place_id").sum() of                  *)
(* optimize_itinerary.                                                     *)
(***************************************************************************)
PreferenceGet(prefs, tag) == IF tag \in DOMAIN prefs THEN prefs[tag] ELSE 0

RowScore_NoSeason(rating, tag, prefs, suitable) ==
    rating * PreferenceGet(prefs, tag) * 2

\* one exploded row: rating * (preference / 100), doubled when in season (x200)
RowScore(rating, tag, prefs, suitable) ==
    LET weighted == rating * PreferenceGet(prefs, tag) * 2
    IN IF suitable THEN weighted * 2 ELSE weighted

RECURSIVE SumRowScores(_, _, _, _)
SumRowScores(rating, types, prefs, suitable) ==
    IF types = << >> THEN 0
    ELSE RowScore(rating, Head(types), prefs, suitable)
         + SumRowScores(rating, Tail(types), prefs, suitable)

SeasonColumn(catalog, start, end) ==
    [ id \in { catalog[i].place_id : i \in 1..Len(catalog) } |->
        LET i == CHOOSE j \in 1..Len(catalog) : catalog[j].place_id = id
        IN IsSeasonSuitable(catalog[i].season, start, end) ]

RECURSIVE SumScoresOf(_, _, _, _)
SumScoresOf(id, catalog, prefs, suit) ==
    IF catalog = << >> THEN 0
    ELSE (IF Head(catalog).place_id = id
          THEN SumRowScores(Head(catalog).rating, Head(catalog).type, prefs, suit[id])
          ELSE 0)
         + SumScoresOf(id, Tail(catalog), prefs, suit)

AggregatedScores(catalog, prefs, suit) ==
    [ id \in { catalog[i].place_id : i \in 1..Len(catalog) } |->
        SumScoresOf(id, catalog, prefs, suit) ]

(***************************************************************************)
(* optimize_itinerary: exclusion, mandatory rows, scored pool, capacity.   *)
(***************************************************************************)
Min(a, b) == IF a <= b THEN a ELSE b
Max(a, b) == IF a >= b THEN a ELSE b

\* selection_df[~selection_df["name"].isin(excluded_locations)]
RemoveExcluded(catalog, excluded) ==
    LET keep(row) == row.name \notin excluded
    IN SelectSeq(catalog, keep)

\* variant: mandatory rows taken from the unfiltered catalog
MandatoryDf_Unfiltered(catalog, mandatory, excluded) ==
    LET isMandatory(row) == row.name \in mandatory
    IN SelectSeq(catalog, isMandatory)

\* selection_df[selection_df["name"].isin(mandatory_locations)]
MandatoryDf(catalog, mandatory, excluded) ==
    LET isMandatory(row) == row.name \in mandatory
    IN SelectSeq(RemoveExcluded(catalog, excluded), isMandatory)

\* selection_df[~selection_df["name"].isin(mandatory_locations)]
PoolDf(catalog, mandatory, excluded) ==
    LET notMandatory(row) == row.name \notin mandatory
    IN SelectSeq(RemoveExcluded(catalog, excluded), notMandatory)

\* merge(aggregated_scores, on="place_id", how="left").fillna(0)
MergeScores(pool, scores) ==
    [ i \in 1..Len(pool) |->
        [ loc |-> pool[i],
          weighted_score |->
              IF pool[i].place_id \in DOMAIN scores THEN scores[pool[i].place_id] ELSE 0 ] ]

\* the orders in which a build's sort_values can leave rows of equal score:
\* kind defaults to quicksort, which does not fix it
TieOrders == {"stable", "reversed"}

Reverse(rows) == [ i \in 1..Len(rows) |-> rows[Len(rows) + 1 - i] ]

\* one insertion of the sort: the row goes behind every row that is not smaller
RECURSIVE InsertDescending(_, _)
InsertDescending(row, sorted) ==
    IF sorted = << >> THEN << row >>
    ELSE IF Head(sorted).weighted_score >= row.weighted_score
         THEN << Head(sorted) >> \o InsertDescending(row, Tail(sorted))
         ELSE << row >> \o sorted

RECURSIVE InsertAll(_)
InsertAll(rows) ==
    IF rows = << >> THEN << >>
    ELSE InsertDescending(rows[Len(rows)], InsertAll(SubSeq(rows, 1, Len(rows) - 1)))

\* sort_values(by="weighted_score", ascending=False): descending scores, rows
\* of equal score in the order of the frame or in its reverse, as the build does
SortDescending(rows, ties) ==
    IF ties = "reversed" THEN InsertAll(Reverse(rows)) ELSE InsertAll(rows)

\* weighted_score * 1.5 for rows whose place_id is in specific_interests
BoostInterests(rows, interests) ==
    [ i \in 1..Len(rows) |->
        IF rows[i].loc.place_id \in interests
        THEN [ rows[i] EXCEPT !.weighted_score = (@ * 3) \div 2 ]
        ELSE rows[i] ]

\* variant: the boosted rows are not sorted again
SelectionDf_NoResort(catalog, mandatory, excluded, interests, scores, ties) ==
    BoostInterests(
        SortDescending(MergeScores(PoolDf(catalog, mandatory, excluded), scores), ties),
        interests)

\* lines 253-268: merge the scores, sort, boost the interests, sort again
SelectionDf(catalog, mandatory, excluded, interests, scores, ties) ==
    LET sorted == SortDescending(MergeScores(PoolDf(catalog, mandatory, excluded), scores),
                                 ties)
    IN IF interests # {} THEN SortDescending(BoostInterests(sorted, interests), ties)
       ELSE sorted

\* variant: the pace cap is left out
MaxLocations_NoPace(poolLen, mandatoryLen, duration, pace) ==
    poolLen + mandatoryLen

\* min(len(selection_df) + len(mandatory_df), trip_duration * locations_per_day)
MaxLocations(poolLen, mandatoryLen, duration, pace) ==
    Min(poolLen + mandatoryLen, duration * PaceOptions[pace].locations_per_day)

\* variant: the mandatory rows are not subtracted
RemainingSlots_NoMandatory(max_locations, mandatoryLen) ==
    Max(0, max_locations)

\* max(0, max_locations - len(mandatory_df))
RemainingSlots(max_locations, mandatoryLen) ==
    Max(0, max_locations - mandatoryLen)

\* variant: the top row is passed over
HeadRows_SkipFirst(rows, n) == SubSeq(rows, 2, Min(n + 1, Len(rows)))

\* selection_df.head(n)
HeadRows(rows, n) == SubSeq(rows, 1, Min(n, Len(rows)))

\* variant: the concatenation is cut to max_locations rows
FinalLocations_Capped(mandatory, selection, duration, pace) ==
    LET max_locations == MaxLocations(Len(selection), Len(mandatory), duration, pace)
        remaining_slots == RemainingSlots(max_locations, Len(mandatory))
        selected_locations == HeadRows(selection, remaining_slots)
    IN HeadRows(mandatory \o [ i \in 1..Len(selected_locations) |-> selected_locations[i].loc ],
                Max(0, max_locations))

\* pd.concat([mandatory_df, selected_locations])
FinalLocations(mandatory, selection, duration, pace) ==
    LET max_locations == MaxLocations(Len(selection), Len(mandatory), duration, pace)
        remaining_slots == RemainingSlots(max_locations, Len(mandatory))
        selected_locations == HeadRows(selection, remaining_slots)
    IN mandatory \o [ i \in 1..Len(selected_locations) |-> selected_locations[i].loc ]

(***************************************************************************)
(* Distance lookup (the row filter of _optimize_route,                     *)
(* _calculate_actual_budget and _get_distance).                            *)
(***************************************************************************)
DistanceRow_Directed(rows, a, b) ==
    LET match(r) == r.place_id_from = a /\ r.place_id_to = b
    IN SelectSeq(rows, match)

DistanceRow(rows, a, b) ==
    LET match(r) == \/ (r.place_id_from = a /\ r.place_id_to = b)
                    \/ (r.place_id_from = b /\ r.place_id_to = a)
    IN SelectSeq(rows, match)

\* variant: the last matching row
GetDistance_Last(rows, a, b) ==
    IF DistanceRow(rows, a, b) # << >>
    THEN DistanceRow(rows, a, b)[Len(DistanceRow(rows, a, b))].distance_km ELSE 0

\* _get_distance: first matching row, 0 when there is none
GetDistance(rows, a, b) ==
    IF DistanceRow(rows, a, b) # << >> THEN DistanceRow(rows, a, b)[1].distance_km ELSE 0

(***************************************************************************)
(* _optimize_route: one scan of the unvisited list.                        *)
(* closest_idx is 1-based, 0 stands for "closest_location is None".        *)
(***************************************************************************)
\* variant: the farthest location with a known distance is kept
ScanClosest_Farthest(rows, current_id, remaining, idx, best) ==
    LET known == { i \in 1..Len(remaining) :
                     DistanceRow(rows, current_id, remaining[i].place_id) # << >> }
        d(i) == DistanceRow(rows, current_id, remaining[i].place_id)[1].distance_km
    IN IF known = {} THEN best
       ELSE LET k == CHOOSE i \in known :
                        \A j \in known : d(i) > d(j) \/ (d(i) = d(j) /\ i <= j)
            IN [min_distance |-> d(k), closest_idx |-> k]

RECURSIVE ScanClosest(_, _, _, _, _)
ScanClosest(rows, current_id, remaining, idx, best) ==
    IF idx > Len(remaining) THEN best
    ELSE LET distance_row == DistanceRow(rows, current_id, remaining[idx].place_id)
             better == /\ distance_row # << >>
                       /\ \/ best.closest_idx = 0
                          \/ distance_row[1].distance_km < best.min_distance
         IN ScanClosest(rows, current_id, remaining, idx + 1,
                IF better
                THEN [min_distance |-> distance_row[1].distance_km, closest_idx |-> idx]
                ELSE best)

\* variant: among equally close locations the last one scanned wins
Closest_LastOnTie(rows, current_id, remaining) ==
    LET known == { i \in 1..Len(remaining) :
                     DistanceRow(rows, current_id, remaining[i].place_id) # << >> }
        d(i) == DistanceRow(rows, current_id, remaining[i].place_id)[1].distance_km
    IN IF known = {} THEN [min_distance |-> 0, closest_idx |-> 0]
       ELSE LET k == CHOOSE i \in known :
                        \A j \in known : d(i) < d(j) \/ (d(i) = d(j) /\ i >= j)
            IN [min_distance |-> d(k), closest_idx |-> k]

\* lines 340-360: the scan starts with closest_location = None
Closest(rows, current_id, remaining) ==
    ScanClosest(rows, current_id, remaining, 1, [min_distance |-> 0, closest_idx |-> 0])

\* variant: twice the budget
TotalAllowedDistance_Doubled(pace, duration) ==
    2 * PaceOptions[pace].distance_per_day_km * duration

\* max_distance_per_day * trip_duration
TotalAllowedDistance(pace, duration) ==
    PaceOptions[pace].distance_per_day_km * duration

\* variant: nothing is removed
RemoveAt_Keep(seq, idx) == seq

\* remaining_locations.pop(closest_idx)
RemoveAt(seq, idx) == SubSeq(seq, 1, idx - 1) \o SubSeq(seq, idx + 1, Len(seq))

(***************************************************************************)
(* _assign_days_to_locations                                               *)
(***************************************************************************)
\* math.ceil(a / b), b # 0
CeilDiv(a, b) == IF b > 0 THEN -((-a) \div b) ELSE -(a \div (-b))

\* a // b, b # 0
FloorDiv(a, b) == IF b > 0 THEN a \div b ELSE (-a) \div (-b)

\* variant: rounded down
LocationsPerDay_Floor(n, duration) == FloorDiv(n, duration)

\* math.ceil(len(locations) / trip_duration)
LocationsPerDay(n, duration) == CeilDiv(n, duration)

\* variant: zero-based day numbers
DayOf_ZeroBased(idx0, locations_per_day) == FloorDiv(idx0, locations_per_day)

DayOf(idx0, locations_per_day) == FloorDiv(idx0, locations_per_day) + 1

\* variant: the last day is cut off too
DayKept_Strict(day, duration) == day < duration

\* if day <= trip_duration
DayKept(day, duration) == day <= duration

\* ZeroDivisionError in math.ceil(len / trip_duration) or idx // locations_per_day
AssignDaysRaises(locations, duration) ==
    /\ locations # << >>
    /\ IF duration = 0 THEN TRUE
       ELSE LocationsPerDay(Len(locations), duration) = 0

AssignDays(locations, duration) ==
    LET locations_per_day == LocationsPerDay(Len(locations), duration)
        withDay == [ i \in 1..Len(locations) |->
                       [ loc |-> locations[i], day |-> DayOf(i - 1, locations_per_day) ] ]
        kept(e) == DayKept(e.day, duration)
    IN IF locations = << >> THEN << >> ELSE SelectSeq(withDay, kept)

(***************************************************************************)
(* _calculate_actual_budget                                                *)
(***************************************************************************)
RECURSIVE RouteDistance(_, _)
RouteDistance(rows, route) ==
    IF Len(route) < 2 THEN 0
    ELSE GetDistance(rows, route[1].loc.place_id, route[2].loc.place_id)
         + RouteDistance(rows, Tail(route))

PaceMultiplier10_Flat(pace) == 10

PaceMultiplier10(pace) ==
    IF pace = "Fast-Paced" THEN 12 ELSE IF pace = "Balanced" THEN 11 ELSE 10

\* result scaled by 1000 * num_travelers
CalculateActualBudget(rows, route, duration, pace, n) ==
    IF route = << >> THEN 0
    ELSE LET total_distance == RouteDistance(rows, route)
             transportation_cost == total_distance * 20
             accommodation_cost == duration * 50 * 100 * n
             food_cost == duration * 30 * 100 * n
             activity_cost == Len(route) * 10 * 100 * n
         IN (transportation_cost + accommodation_cost + food_cost + activity_cost)
            * PaceMultiplier10(pace)

(***************************************************************************)
(* to_json.  A quotient is held as the pair num / den.                     *)
(***************************************************************************)
Rat(n, d) == [num |-> n, den |-> d]

TransportationCost_NotShared(total_distance, n) == Rat(total_distance * 20, 100)

\* (total_distance * 0.2) / num_travelers
TransportationCost(total_distance, n) == Rat(total_distance * 20, 100 * n)

\* minb is scaled by 100 * n, actual by 1000 * n
ToJsonResult(rows, route, duration, pace, n, minb, actual) ==
    [ trip_duration |-> duration,
      pace |-> pace,
      num_travelers |-> n,
      min_budget_per_person |-> Rat(minb, 100 * n),
      actual_budget_per_person |-> Rat(actual, 1000 * n),
      total_group_budget |-> Rat(actual * n, 1000 * n),
      total_locations |-> Len(route),
      itinerary |->
          [ i \in 1..Len(route) |->
              [ day |-> route[i].day,
                place_id |-> route[i].loc.place_id,
                name |-> route[i].loc.name,
                types |-> route[i].loc.type,
                rating |-> route[i].loc.rating,
                season |-> route[i].loc.season,
                distance_to_next_km |->
                    IF i < Len(route)
                    THEN GetDistance(rows, route[i].loc.place_id, route[i + 1].loc.place_id)
                    ELSE 0 ] ],
      budget_breakdown_per_person |->
          [ transportation |-> TransportationCost(RouteDistance(rows, route), n),
            accommodation |-> duration * 50,
            food |-> duration * 30,
            activities |-> Len(route) * 10,
            total |-> Rat(actual, 1000 * n) ] ]

(***************************************************************************)
(* The state machine: construction, then one request stepping through      *)
(* optimize_itinerary.                                                     *)
(***************************************************************************)
NoParams ==
    [ trip_start_date |-> <<1, 1, 1>>, trip_end_date |-> <<1, 1, 1>>,
      user_preferences |-> << >>, pace |-> "Balanced",
      mandatory_locations |-> {}, excluded_locations |-> {},
      specific_interests |-> {}, num_travelers |-> 1 ]

\* ItineraryGenerator(location_data, distance_data)
Init ==
    /\ location_data \in Catalogs
    /\ distance_data \in DistanceTables
    /\ pc = "new"
    /\ params = NoParams
    /\ trip_duration = 0
    /\ min_budget = 0
    /\ season_suitable = << >>
    /\ aggregated_scores = << >>
    /\ mandatory_df = << >>
    /\ selection_df = << >>
    /\ final_locations = << >>
    /\ ordered_locations = << >>
    /\ remaining_locations = << >>
    /\ current_total_distance = 0
    /\ loop_exit = "none"
    /\ itinerary = << >>
    /\ actual_budget = 0
    /\ json_result = << >>
    /\ self_trip_start_date = << >>
    /\ call_no = 0
    /\ first_call = << >>
    /\ tie_order = "unsettled"

\* _preprocess_locations: the catalog frame has the columns of its records
PreprocessLocations ==
    /\ pc = "new"
    /\ location_data # << >>
    /\ pc' = "idle"
    /\ UNCHANGED <<location_data, distance_data, tie_order, json_result, self_trip_start_date,
                   call_no, first_call, params, trip_duration, min_budget,
                   season_suitable, aggregated_scores, mandatory_df, selection_df,
                   final_locations, ordered_locations, remaining_locations,
                   current_total_distance, loop_exit, itinerary, actual_budget>>

\* _preprocess_locations, line 34: pd.DataFrame([]) has no column "type",
\* df.explode("type") raises KeyError and no instance is built
PreprocessRaise ==
    /\ pc = "new"
    /\ location_data = << >>
    /\ pc' = "raised_key_error"
    /\ UNCHANGED <<location_data, distance_data, tie_order, json_result, self_trip_start_date,
                   call_no, first_call, params, trip_duration, min_budget,
                   season_suitable, aggregated_scores, mandatory_df, selection_df,
                   final_locations, ordered_locations, remaining_locations,
                   current_total_distance, loop_exit, itinerary, actual_budget>>

\* variant: the season check reads the start date the previous call stored
Request_StaleStart(dates, prefs, pace, mandatory, excluded, interests, n) ==
    LET start == dates[1]
        end == dates[2]
        stored == IF self_trip_start_date = << >> THEN start ELSE self_trip_start_date
        suit == SeasonColumn(location_data, stored, end)
    IN /\ self_trip_start_date' = start
       /\ params' = [ trip_start_date |-> start, trip_end_date |-> end,
                      user_preferences |-> prefs, pace |-> pace,
                      mandatory_locations |-> mandatory,
                      excluded_locations |-> excluded,
                      specific_interests |-> interests, num_travelers |-> n ]
       /\ trip_duration' = TripDuration(start, end)
       /\ min_budget' = CalculateMinBudget(TripDuration(start, end), pace, n)
       /\ season_suitable' = suit
       /\ aggregated_scores' = AggregatedScores(location_data, prefs, suit)
       /\ pc' = "select"
       /\ UNCHANGED <<location_data, distance_data, tie_order, json_result,
                      mandatory_df, selection_df, final_locations, ordered_locations,
                      remaining_locations, current_total_distance, loop_exit,
                      itinerary, actual_budget>>

\* optimize_itinerary, lines 209-223: duration, minimum budget, scores
Request(dates, prefs, pace, mandatory, excluded, interests, n) ==
    LET start == dates[1]
        end == dates[2]
        suit == SeasonColumn(location_data, start, end)
    IN /\ self_trip_start_date' = start
       /\ params' = [ trip_start_date |-> start, trip_end_date |-> end,
                      user_preferences |-> prefs, pace |-> pace,
                      mandatory_locations |-> mandatory,
                      excluded_locations |-> excluded,
                      specific_interests |-> interests, num_travelers |-> n ]
       /\ trip_duration' = TripDuration(start, end)
       /\ min_budget' = CalculateMinBudget(TripDuration(start, end), pace, n)
       /\ season_suitable' = suit
       /\ aggregated_scores' = AggregatedScores(location_data, prefs, suit)
       /\ pc' = "select"
       /\ UNCHANGED <<location_data, distance_data, tie_order, json_result, mandatory_df,
                      selection_df, final_locations, ordered_locations,
                      remaining_locations, current_total_distance, loop_exit,
                      itinerary, actual_budget>>

\* generate_travel_itinerary: the first call on the instance
OptimizeItinerary ==
    /\ pc = "idle"
    /\ \E dates \in TripDates, prefs \in PreferenceMaps,
          pace \in PaceNames, mandatory \in SUBSET MandatoryNames,
          excluded \in BoundedSubsets(ExcludedNames, MaxExcluded),
          interests \in BoundedSubsets(InterestIds, MaxInterests),
          n \in 1..MaxTravelers :
        Request(dates, prefs, pace, mandatory, excluded, interests, n)
    /\ call_no' = 1
    /\ UNCHANGED first_call

\* optimize_itinerary, lines 235-283.  The sorts of lines 258 and 268 order
\* equal scores as the build does: the first request whose frame depends on
\* it settles tie_order, and every later sort of the instance follows it.
SelectLocations ==
    /\ pc = "select"
    /\ \E ties \in TieOrders :
        LET mand == MandatoryDf(location_data, params.mandatory_locations,
                                params.excluded_locations)
            frame(t) == SelectionDf(location_data, params.mandatory_locations,
                                    params.excluded_locations,
                                    params.specific_interests, aggregated_scores, t)
            sel == frame(ties)
        IN /\ tie_order \in {"unsettled", ties}
           /\ tie_order' = IF frame("stable") = frame("reversed") THEN tie_order
                            ELSE ties
           /\ mandatory_df' = mand
           /\ selection_df' = sel
           /\ final_locations' = FinalLocations(mand, sel, trip_duration, params.pace)
    /\ pc' = "route"
    /\ UNCHANGED <<location_data, distance_data, json_result, self_trip_start_date,
                   call_no, first_call, params, trip_duration, min_budget,
                   season_suitable, aggregated_scores, ordered_locations,
                   remaining_locations, current_total_distance, loop_exit,
                   itinerary, actual_budget>>

\* _optimize_route, lines 319-320: nothing selected
RouteEmpty ==
    /\ pc = "route"
    /\ final_locations = << >>
    /\ itinerary' = << >>
    /\ pc' = "budget"
    /\ UNCHANGED <<location_data, distance_data, tie_order, json_result, self_trip_start_date,
                   call_no, first_call, params, trip_duration, min_budget,
                   season_suitable, aggregated_scores, mandatory_df, selection_df,
                   final_locations, ordered_locations, remaining_locations,
                   current_total_distance, loop_exit, actual_budget>>

\* _optimize_route, lines 322-333
StartRoute ==
    /\ pc = "route"
    /\ final_locations # << >>
    /\ ordered_locations' = << final_locations[1] >>
    /\ remaining_locations' = Tail(final_locations)
    /\ current_total_distance' = 0
    /\ pc' = "loop"
    /\ UNCHANGED <<location_data, distance_data, tie_order, json_result, self_trip_start_date,
                   call_no, first_call, params, trip_duration, min_budget,
                   season_suitable, aggregated_scores, mandatory_df, selection_df,
                   final_locations, loop_exit, itinerary, actual_budget>>

total_allowed_distance == TotalAllowedDistance(params.pace, trip_duration)

LoopCondition ==
    remaining_locations # << >> /\ current_total_distance < total_allowed_distance

closest ==
    Closest(distance_data, ordered_locations[Len(ordered_locations)].place_id,
            remaining_locations)

\* line 336: the while condition is false
LoopEnd ==
    /\ pc = "loop"
    /\ ~LoopCondition
    /\ loop_exit' = IF remaining_locations = << >> THEN "unvisited_empty"
                    ELSE "budget_reached"
    /\ pc' = "assign"
    /\ UNCHANGED <<location_data, distance_data, tie_order, json_result, self_trip_start_date,
                   call_no, first_call, params, trip_duration, min_budget,
                   season_suitable, aggregated_scores, mandatory_df, selection_df,
                   final_locations, ordered_locations, remaining_locations,
                   current_total_distance, itinerary, actual_budget>>

\* variant: the iteration changes nothing
Commit_NoProgress ==
    /\ pc = "loop"
    /\ LoopCondition
    /\ closest.closest_idx # 0
    /\ current_total_distance + closest.min_distance <= total_allowed_distance
    /\ UNCHANGED vars

\* lines 363-370: the closest location fits the budget
Commit ==
    /\ pc = "loop"
    /\ LoopCondition
    /\ closest.closest_idx # 0
    /\ current_total_distance + closest.min_distance <= total_allowed_distance
    /\ current_total_distance' = current_total_distance + closest.min_distance
    /\ ordered_locations' = Append(ordered_locations,
                                   remaining_locations[closest.closest_idx])
    /\ remaining_locations' = RemoveAt(remaining_locations, closest.closest_idx)
    /\ UNCHANGED <<location_data, distance_data, tie_order, json_result, self_trip_start_date,
                   call_no, first_call, pc, params, trip_duration, min_budget,
                   season_suitable, aggregated_scores, mandatory_df, selection_df,
                   final_locations, loop_exit, itinerary, actual_budget>>

\* variant: the location that does not fit is appended before the loop ends
BudgetStop_Appends ==
    /\ pc = "loop"
    /\ LoopCondition
    /\ closest.closest_idx # 0
    /\ current_total_distance + closest.min_distance > total_allowed_distance
    /\ current_total_distance' = current_total_distance + closest.min_distance
    /\ ordered_locations' = Append(ordered_locations,
                                   remaining_locations[closest.closest_idx])
    /\ remaining_locations' = RemoveAt(remaining_locations, closest.closest_idx)
    /\ loop_exit' = "budget_stop"
    /\ pc' = "assign"
    /\ UNCHANGED <<location_data, distance_data, tie_order, json_result, self_trip_start_date,
                   call_no, first_call, params, trip_duration, min_budget,
                   season_suitable, aggregated_scores, mandatory_df, selection_df,
                   final_locations, itinerary, actual_budget>>

\* lines 364, 371-373: the closest location does not fit
BudgetStop ==
    /\ pc = "loop"
    /\ LoopCondition
    /\ closest.closest_idx # 0
    /\ current_total_distance + closest.min_distance > total_allowed_distance
    /\ current_total_distance' = current_total_distance + closest.min_distance
    /\ loop_exit' = "budget_stop"
    /\ pc' = "assign"
    /\ UNCHANGED <<location_data, distance_data, tie_order, json_result, self_trip_start_date,
                   call_no, first_call, params, trip_duration, min_budget,
                   season_suitable, aggregated_scores, mandatory_df, selection_df,
                   final_locations, ordered_locations, remaining_locations,
                   itinerary, actual_budget>>

\* variant: the walk goes on with the first unvisited location
NoKnownDistance_Fallback ==
    /\ pc = "loop"
    /\ LoopCondition
    /\ closest.closest_idx = 0
    /\ ordered_locations' = Append(ordered_locations, remaining_locations[1])
    /\ remaining_locations' = Tail(remaining_locations)
    /\ UNCHANGED <<location_data, distance_data, tie_order, json_result, self_trip_start_date,
                   call_no, first_call, pc, params, trip_duration, min_budget,
                   season_suitable, aggregated_scores, mandatory_df, selection_df,
                   final_locations, current_total_distance, loop_exit, itinerary,
                   actual_budget>>

\* lines 374-376: no unvisited location has a known distance
NoKnownDistance ==
    /\ pc = "loop"
    /\ LoopCondition
    /\ closest.closest_idx = 0
    /\ loop_exit' = "no_known_distance"
    /\ pc' = "assign"
    /\ UNCHANGED <<location_data, distance_data, tie_order, json_result, self_trip_start_date,
                   call_no, first_call, params, trip_duration, min_budget,
                   season_suitable, aggregated_scores, mandatory_df, selection_df,
                   final_locations, ordered_locations, remaining_locations,
                   current_total_distance, itinerary, actual_budget>>

\* line 379 and _assign_days_to_locations
AssignDaysToLocations ==
    /\ pc = "assign"
    /\ ~AssignDaysRaises(ordered_locations, trip_duration)
    /\ itinerary' = AssignDays(ordered_locations, trip_duration)
    /\ pc' = "budget"
    /\ UNCHANGED <<location_data, distance_data, tie_order, json_result, self_trip_start_date,
                   call_no, first_call, params, trip_duration, min_budget,
                   season_suitable, aggregated_scores, mandatory_df, selection_df,
                   final_locations, ordered_locations, remaining_locations,
                   current_total_distance, loop_exit, actual_budget>>

\* ZeroDivisionError leaves optimize_itinerary
AssignDaysRaise ==
    /\ pc = "assign"
    /\ AssignDaysRaises(ordered_locations, trip_duration)
    /\ pc' = "raised"
    /\ UNCHANGED <<location_data, distance_data, tie_order, json_result, self_trip_start_date,
                   call_no, first_call, params, trip_duration, min_budget,
                   season_suitable, aggregated_scores, mandatory_df, selection_df,
                   final_locations, ordered_locations, remaining_locations,
                   current_total_distance, loop_exit, itinerary, actual_budget>>

\* lines 289-299
CalculateBudget ==
    /\ pc = "budget"
    /\ actual_budget' = CalculateActualBudget(distance_data, itinerary, trip_duration,
                                              params.pace, params.num_travelers)
    /\ pc' = "returned"
    /\ UNCHANGED <<location_data, distance_data, tie_order, json_result, self_trip_start_date,
                   call_no, first_call, params, trip_duration, min_budget,
                   season_suitable, aggregated_scores, mandatory_df, selection_df,
                   final_locations, ordered_locations, remaining_locations,
                   current_total_distance, loop_exit, itinerary>>

\* generate_travel_itinerary, line 574: to_json
ToJson ==
    /\ pc = "returned"
    /\ json_result' = ToJsonResult(distance_data, itinerary, trip_duration, params.pace,
                                   params.num_travelers, min_budget, actual_budget)
    /\ pc' = "done"
    /\ UNCHANGED <<location_data, distance_data, tie_order, self_trip_start_date,
                   call_no, first_call, params, trip_duration, min_budget,
                   season_suitable, aggregated_scores, mandatory_df, selection_df,
                   final_locations, ordered_locations, remaining_locations,
                   current_total_distance, loop_exit, itinerary, actual_budget>>

Next ==
    \/ PreprocessLocations
    \/ PreprocessRaise
    \/ OptimizeItinerary
    \/ SelectLocations
    \/ RouteEmpty
    \/ StartRoute
    \/ LoopEnd
    \/ Commit
    \/ BudgetStop
    \/ NoKnownDistance
    \/ AssignDaysToLocations
    \/ AssignDaysRaise
    \/ CalculateBudget
    \/ ToJson

Spec == Init /\ [][Next]_vars

(***************************************************************************)
(* Two calls on one instance: the second repeats the first request, with   *)
(* any number of travelers.                                                *)
(***************************************************************************)
TwiceMandatory == { {}, {"Bentota"}, {"Colombo", "Arugam Bay"} }

\* what a call hands back, with the request it answered
Returned ==
    [ params |-> params,
      final_locations |-> final_locations,
      itinerary |-> itinerary,
      min_budget |-> min_budget,
      actual_budget |-> actual_budget,
      json_result |-> json_result ]

FirstCall ==
    /\ pc = "idle"
    /\ \E dates \in TripDates, prefs \in PreferenceMaps,
          pace \in PaceNames, mandatory \in TwiceMandatory,
          interests \in BoundedSubsets(InterestIds, MaxInterests),
          n \in 1..MaxTravelers :
        Request(dates, prefs, pace, mandatory, {}, interests, n)
    /\ call_no' = 1
    /\ UNCHANGED first_call

SecondCall ==
    /\ pc = "done"
    /\ call_no = 1
    /\ first_call' = Returned
    /\ \E n \in 1..MaxTravelers :
        Request(<<params.trip_start_date, params.trip_end_date>>,
                params.user_preferences, params.pace, params.mandatory_locations,
                params.excluded_locations, params.specific_interests, n)
    /\ call_no' = 2

NextTwice ==
    \/ PreprocessLocations
    \/ PreprocessRaise
    \/ FirstCall
    \/ SecondCall
    \/ SelectLocations
    \/ RouteEmpty
    \/ StartRoute
    \/ LoopEnd
    \/ Commit
    \/ BudgetStop
    \/ NoKnownDistance
    \/ AssignDaysToLocations
    \/ AssignDaysRaise
    \/ CalculateBudget
    \/ ToJson

SpecTwice == Init /\ [][NextTwice]_vars

(***************************************************************************)
(* Three calls on one instance: a request, a different request, which may  *)
(* raise, and the first request again; or the first request twice in a     *)
(* row.  The instance keeps self.trip_start_date and its frames from one   *)
(* call to the next.                                                       *)
(***************************************************************************)
\* <<dates, preferences, pace, mandatory, excluded, interests, travelers>>
OtherRequests ==
    { << << <<2025, 6, 1>>, <<2025, 6, 1>> >>,
         ("Beach" :> 100) @@ ("Adventure" :> 50),
         "Fast-Paced", {"Bentota"}, {"Colombo"}, {4}, 2 >>,
      << << <<2025, 6, 1>>, <<2025, 5, 31>> >>,
         ("City" :> 50) @@ ("HillCountry" :> 50) @@ ("Adventure" :> 50),
         "Balanced", {"Colombo"}, {}, {}, 1 >>,
      << << <<2025, 11, 10>>, <<2026, 1, 2>> >>,
         ("City" :> 50) @@ ("HillCountry" :> 50) @@ ("Adventure" :> 50),
         "Relaxing", {}, {"Bentota"}, {2}, 1 >> }

\* generate_travel_itinerary called with another request
InterveningCall ==
    /\ pc = "done"
    /\ call_no = 1
    /\ first_call' = Returned
    /\ \E q \in OtherRequests :
        Request(q[1], q[2], q[3], q[4], q[5], q[6], q[7])
    /\ call_no' = 2

\* generate_travel_itinerary called with the first request again, straight
\* after the first call or after the other request returned or raised
RepeatCall ==
    /\ call_no \in {1, 2}
    /\ IF call_no = 1
       THEN pc = "done" /\ first_call' = Returned
       ELSE /\ pc \in {"done", "raised"}
            /\ params # first_call.params
            /\ UNCHANGED first_call
    /\ LET p == IF call_no = 1 THEN params ELSE first_call.params
       IN Request(<<p.trip_start_date, p.trip_end_date>>, p.user_preferences,
                  p.pace, p.mandatory_locations, p.excluded_locations,
                  p.specific_interests, p.num_travelers)
    /\ call_no' = call_no + 1

NextRepeat ==
    \/ PreprocessLocations
    \/ PreprocessRaise
    \/ FirstCall
    \/ InterveningCall
    \/ RepeatCall
    \/ SelectLocations
    \/ RouteEmpty
    \/ StartRoute
    \/ LoopEnd
    \/ Commit
    \/ BudgetStop
    \/ NoKnownDistance
    \/ AssignDaysToLocations
    \/ AssignDaysRaise
    \/ CalculateBudget
    \/ ToJson

SpecRepeat == Init /\ [][NextRepeat]_vars

(***************************************************************************)
(* One call for one traveler whose route loop is run to its end: once the  *)
(* loop is entered the interpreter executes the next iteration or the exit *)
(* of the while statement.                                                 *)
(***************************************************************************)
OneCall ==
    /\ pc = "idle"
    /\ \E dates \in TripDates, prefs \in PreferenceMaps,
          pace \in PaceNames, mandatory \in TwiceMandatory,
          interests \in BoundedSubsets(InterestIds, MaxInterests) :
        Request(dates, prefs, pace, mandatory, {}, interests, 1)
    /\ call_no' = 1
    /\ UNCHANGED first_call

NextWalk ==
    \/ PreprocessLocations
    \/ PreprocessRaise
    \/ OneCall
    \/ SelectLocations
    \/ RouteEmpty
    \/ StartRoute
    \/ LoopEnd
    \/ Commit
    \/ BudgetStop
    \/ NoKnownDistance
    \/ AssignDaysToLocations
    \/ AssignDaysRaise
    \/ CalculateBudget
    \/ ToJson

\* one evaluation of the while statement of _optimize_route
WalkStep == LoopEnd \/ Commit \/ BudgetStop \/ NoKnownDistance

SpecWalk == Init /\ [][NextWalk]_vars /\ WF_vars(WalkStep)

(***************************************************************************)
(* Properties.                                                             *)
(***************************************************************************)
Selected == pc \in {"route", "loop", "assign", "budget", "returned", "done", "raised"}
LoopDone == pc \in {"assign", "budget", "returned", "done", "raised"}
Assigned == pc \in {"budget", "returned", "done"}

locations_per_day == PaceOptions[params.pace].locations_per_day
distance_per_day_km == PaceOptions[params.pace].distance_per_day_km

InFinal(row) == \E j \in 1..Len(final_locations) : final_locations[j] = row
InItinerary(row) == \E j \in 1..Len(itinerary) : itinerary[j].loc = row

\* C1: no location whose name is in excluded_locations is in the final
\* selection or in the itinerary, also when the name is mandatory as well.
C1_ExcludedNeverSelected ==
    Selected =>
        /\ \A i \in 1..Len(final_locations) :
              final_locations[i].name \notin params.excluded_locations
        /\ \A i \in 1..Len(itinerary) :
              itinerary[i].loc.name \notin params.excluded_locations

C1_Witness ==
    /\ pc = "returned"
    /\ itinerary # << >>
    /\ \E nm \in CatalogNames :
          nm \in params.mandatory_locations /\ nm \in params.excluded_locations

\* C2: the final selection holds every catalog location that is mandatory and
\* not excluded, whatever the capacity; a mandatory name that is not in the
\* catalog yields no row.
C2_MandatoryAlwaysSelected ==
    Selected =>
        /\ \A i \in 1..Len(location_data) :
              ( /\ location_data[i].name \in params.mandatory_locations
                /\ location_data[i].name \notin params.excluded_locations )
              => InFinal(location_data[i])
        /\ \A j \in 1..Len(final_locations) : final_locations[j].name \in CatalogNames

C2_Witness ==
    /\ pc = "route"
    /\ trip_duration >= 1
    /\ "Atlantis" \in params.mandatory_locations
    /\ Len(mandatory_df) > trip_duration * locations_per_day
    /\ Len(final_locations) = Len(mandatory_df)

\* C3 (as claimed): every mandatory location that was selected is in the
\* itinerary that optimize_itinerary returns, for duration >= 1.
C3_MandatoryInItinerary ==
    (pc = "returned" /\ trip_duration >= 1) =>
        \A i \in 1..Len(mandatory_df) : InItinerary(mandatory_df[i])

\* C4 (as claimed): the final selection has at most
\* trip_duration * locations_per_day rows (shown for a request with
\* end >= start).
C4_SizeWithinCapacity ==
    (Selected /\ trip_duration >= 1) =>
        Len(final_locations) <= trip_duration * locations_per_day

\* C4 (amended): the final selection has at most
\* max(trip_duration * locations_per_day, number of mandatory rows) rows.
C4_SizeWithinCapacityOrMandatory ==
    Selected =>
        Len(final_locations) <= Max(trip_duration * locations_per_day, Len(mandatory_df))

C4_Witness ==
    /\ pc = "route"
    /\ Len(mandatory_df) >= 1
    /\ Len(final_locations) > Len(mandatory_df)
    /\ Len(final_locations) = trip_duration * locations_per_day
    /\ Len(selection_df) > Len(final_locations) - Len(mandatory_df)

\* C5 (as claimed): when the greedy loop has ended, current_total_distance is
\* at most max_distance_per_day * trip_duration.
C5_CounterWithinBudget ==
    (LoopDone /\ trip_duration >= 1) =>
        current_total_distance <= total_allowed_distance

\* C6: every itinerary entry has a day number in 1..trip_duration, for
\* duration >= 1.
C6_DayInRange ==
    (Assigned /\ trip_duration >= 1) =>
        \A i \in 1..Len(itinerary) :
            1 <= itinerary[i].day /\ itinerary[i].day <= trip_duration

C6_Witness ==
    /\ pc = "returned"
    /\ trip_duration >= 2
    /\ Len(itinerary) >= 3
    /\ Len(itinerary) % trip_duration # 0
    /\ itinerary[Len(itinerary)].day = trip_duration

RECURSIVE DayDistance(_, _, _)
DayDistance(rows, route, k) ==
    IF Len(route) < 2 THEN 0
    ELSE (IF route[1].day = k /\ route[2].day = k
          THEN GetDistance(rows, route[1].loc.place_id, route[2].loc.place_id)
          ELSE 0)
         + DayDistance(rows, Tail(route), k)

\* C7 (as claimed): on every day of the itinerary the legs between
\* consecutive entries of that day add up to at most distance_per_day_km.
C7_DayDistanceWithinBudget ==
    (pc = "returned" /\ trip_duration >= 1) =>
        \A k \in 1..trip_duration :
            DayDistance(distance_data, itinerary, k) <= distance_per_day_km

EntriesOnDay(k) == Cardinality({ i \in 1..Len(itinerary) : itinerary[i].day = k })

\* C8 (as claimed): no day of the itinerary has more than locations_per_day
\* entries, for duration >= 1.
C8_DayCountWithinPace ==
    (pc = "returned" /\ trip_duration >= 1) =>
        \A k \in 1..trip_duration : EntriesOnDay(k) <= locations_per_day

\* C8 (amended): no day of the itinerary has more than locations_per_day
\* entries, for duration >= 1, when the mandatory rows number at most
\* trip_duration * locations_per_day.
C8_DayCountWithinPaceUnlessMandatory ==
    ( /\ pc = "returned"
      /\ trip_duration >= 1
      /\ Len(mandatory_df) <= trip_duration * locations_per_day )
    => \A k \in 1..trip_duration : EntriesOnDay(k) <= locations_per_day

C8_Witness ==
    /\ pc = "returned"
    /\ trip_duration >= 1
    /\ Len(mandatory_df) >= 1
    /\ Len(mandatory_df) <= trip_duration * locations_per_day
    /\ Len(selection_df) > Len(final_locations) - Len(mandatory_df)
    /\ \A k \in 1..trip_duration : EntriesOnDay(k) = locations_per_day

MonthsBetween(start_month, end_month) ==
    IF start_month <= end_month THEN start_month..end_month
    ELSE (start_month..12) \cup (1..end_month)

OverlapsAWindow(start, end) ==
    MonthsBetween(Month(start), Month(end)) \cap {12, 1, 2, 3, 4, 6, 7, 8, 9} # {}

\* C9 (as claimed): a location tagged DEC-APR and JUN-SEP is season-suitable
\* whenever some month from the start month to the end month lies in one of
\* the two windows.
C9_BothTagsOverlap ==
    (pc \notin {"new", "idle"} /\ trip_duration >= 1) =>
        \A i \in 1..Len(location_data) :
            ( /\ {"DEC-APR", "JUN-SEP"} \subseteq location_data[i].season
              /\ OverlapsAWindow(params.trip_start_date, params.trip_end_date) )
            => season_suitable[location_data[i].place_id]

\* C10 (as claimed): a request that goes through selection, routing and day
\* assignment has trip_duration >= 1.
C10_DurationPositive ==
    Selected => trip_duration >= 1

\* C11 (as claimed): no request makes optimize_itinerary raise; every call
\* completes and returns an itinerary, whatever the capacity and the
\* mandatory list.
C11_NeverRaises ==
    pc # "raised"

\* C12 (as claimed): for an empty catalog generate_travel_itinerary does not
\* raise, and its result has no locations, an empty itinerary and budgets 0.
C12_EmptyCatalogResult ==
    location_data = << >> =>
        /\ pc # "raised_key_error"
        /\ pc = "done" =>
            /\ json_result.total_locations = 0
            /\ json_result.itinerary = << >>
            /\ json_result.actual_budget_per_person.num = 0
            /\ json_result.total_group_budget.num = 0

\* rows of the distance table whose endpoints are {a, b}, in either direction
PairRows(a, b) ==
    { j \in 1..Len(distance_data) :
        {distance_data[j].place_id_from, distance_data[j].place_id_to} = {a, b} }

\* the earliest such row
FirstPairRow(a, b) ==
    CHOOSE j \in PairRows(a, b) : \A k \in PairRows(a, b) : j <= k

KnownDistance(a, b) ==
    IF PairRows(a, b) = {} THEN 0 ELSE distance_data[FirstPairRow(a, b)].distance_km

RECURSIVE LegsUpTo(_)
LegsUpTo(k) ==
    IF k = 0 THEN 0
    ELSE LegsUpTo(k - 1)
         + KnownDistance(itinerary[k].loc.place_id, itinerary[k + 1].loc.place_id)

\* sum of the looked-up distances of consecutive itinerary entries
total_distance == IF itinerary = << >> THEN 0 ELSE LegsUpTo(Len(itinerary) - 1)

\* multiplier x 10
Multiplier10 ==
    [p \in PaceNames |->
        IF p = "Fast-Paced" THEN 12 ELSE IF p = "Balanced" THEN 11 ELSE 10]

\* C13: the reported actual budget per person is 0 for an empty itinerary,
\* whatever the trip length; otherwise it is
\* (total_distance x 0.2 / num_travelers + 50 x days + 30 x days
\*  + 10 x itinerary length) x multiplier (1.2 / 1.1 / 1.0), and the group
\* total is that value x num_travelers.  Both sides are taken over the
\* common denominator 1000 x num_travelers.
C13_ActualBudget ==
    pc = "done" =>
        LET n == params.num_travelers
            per_person == json_result.actual_budget_per_person
            group == json_result.total_group_budget
        IN /\ per_person.den = 1000 * n
           /\ itinerary = << >> => per_person.num = 0
           /\ itinerary # << >> =>
                per_person.num =
                    ( total_distance * 20
                      + (50 * trip_duration + 30 * trip_duration
                         + 10 * Len(itinerary)) * 100 * n )
                    * Multiplier10[params.pace]
           /\ group.den = per_person.den
           /\ group.num = per_person.num * n

C13_Witness ==
    /\ pc = "done"
    /\ Len(itinerary) >= 2
    /\ total_distance > 0
    /\ params.num_travelers >= 2
    /\ params.pace = "Fast-Paced"
    /\ json_result.actual_budget_per_person.num > 0

SecondDone == pc = "done" /\ call_no = 2

\* the breakdown of the call with fewer travelers, and of the other one
BreakdownOfFewer ==
    IF first_call.params.num_travelers < params.num_travelers
    THEN first_call.json_result.budget_breakdown_per_person
    ELSE json_result.budget_breakdown_per_person

BreakdownOfMore ==
    IF first_call.params.num_travelers < params.num_travelers
    THEN json_result.budget_breakdown_per_person
    ELSE first_call.json_result.budget_breakdown_per_person

\* C14: two requests that differ only in num_travelers give the same
\* itinerary and the same per-person accommodation, food and activities; the
\* per-person transportation of the larger group is at most that of the
\* smaller one, and strictly less when the route distance is positive.
C14_TransportationMonotone ==
    (SecondDone /\ first_call.params.num_travelers # params.num_travelers) =>
        LET t1 == BreakdownOfFewer.transportation
            t2 == BreakdownOfMore.transportation
        IN /\ itinerary = first_call.itinerary
           /\ json_result.itinerary = first_call.json_result.itinerary
           /\ t2.num * t1.den <= t1.num * t2.den
           /\ total_distance > 0 => t2.num * t1.den < t1.num * t2.den
           /\ BreakdownOfMore.accommodation = BreakdownOfFewer.accommodation
           /\ BreakdownOfMore.food = BreakdownOfFewer.food
           /\ BreakdownOfMore.activities = BreakdownOfFewer.activities

C14_Witness ==
    /\ SecondDone
    /\ first_call.params.num_travelers < params.num_travelers
    /\ Len(itinerary) >= 2
    /\ total_distance > 0

\* the first request is being answered again
Repeating == call_no >= 2 /\ params = first_call.params

\* C15: the same request made again on one instance, straight away or after
\* a different request that returned or raised, returns the same selection,
\* route order, day numbers and budgets as the first time, and completes
\* like the first call did; this holds for either order the build's sort
\* leaves equal scores in.
C15_SameRequestSameOutput ==
    /\ Repeating => pc # "raised"
    /\ (Repeating /\ pc = "done") => Returned = first_call

C15_Witness ==
    /\ call_no = 3
    /\ pc = "done"
    /\ params = first_call.params
    /\ tie_order = "reversed"
    /\ Len(itinerary) >= 2
    /\ Len(itinerary) < Len(final_locations)
    /\ self_trip_start_date = params.trip_start_date

\* C16: the lookup for (a, b) and for (b, a) give the same result, the
\* distance of the earliest table row joining a and b in either direction,
\* and 0 when there is no such row; the route builder only moves along a
\* pair with a row, and counts that row's distance.
C16_LookupUndirected ==
    /\ \A a \in CatalogIds, b \in CatalogIds :
        /\ GetDistance(distance_data, a, b) = GetDistance(distance_data, b, a)
        /\ GetDistance(distance_data, a, b) = KnownDistance(a, b)
        /\ DistanceRow(distance_data, a, b) = << >> <=> PairRows(a, b) = {}
    /\ pc \in {"loop", "assign", "budget", "returned", "done", "raised"} =>
        \A i \in 1..(Len(ordered_locations) - 1) :
            PairRows(ordered_locations[i].place_id,
                     ordered_locations[i + 1].place_id) # {}
    /\ pc = "done" =>
        \A i \in 1..Len(itinerary) :
            json_result.itinerary[i].distance_to_next_km =
                IF i < Len(itinerary)
                THEN KnownDistance(itinerary[i].loc.place_id,
                                   itinerary[i + 1].loc.place_id)
                ELSE 0

\* a leg travelled against the direction of the earliest of two rows that
\* record different distances for the pair
C16_Witness ==
    /\ pc = "done"
    /\ \E i \in 1..(Len(itinerary) - 1) :
        LET a == itinerary[i].loc.place_id
            b == itinerary[i + 1].loc.place_id
        IN /\ Cardinality(PairRows(a, b)) = 2
           /\ distance_data[FirstPairRow(a, b)].place_id_from = b
           /\ \E j \in PairRows(a, b) :
                distance_data[j].distance_km # KnownDistance(a, b)
           /\ json_result.itinerary[i].distance_to_next_km = KnownDistance(a, b)
    /\ current_total_distance > 0

Requested == pc \notin {"new", "idle", "raised_key_error"}

DecAprMonths == {12, 1, 2, 3, 4}
JunSepMonths == {6, 7, 8, 9}
EndpointMonths == {params.trip_start_date[2], params.trip_end_date[2]}

\* C17: a location is season-suitable exactly when it is tagged DEC-APR and
\* the start or the end month is one of 12, 1, 2, 3, 4, or it is tagged
\* JUN-SEP and the start or the end month is one of 6, 7, 8, 9; so no location
\* is suitable when both months are among 5, 10, 11, and a location without
\* a season tag never is.
C17_SeasonRule ==
    Requested =>
        \A i \in 1..Len(location_data) :
            LET row == location_data[i]
                suitable == season_suitable[row.place_id]
            IN /\ suitable <=>
                    \/ "DEC-APR" \in row.season /\ EndpointMonths \cap DecAprMonths # {}
                    \/ "JUN-SEP" \in row.season /\ EndpointMonths \cap JunSepMonths # {}
               /\ EndpointMonths \subseteq {5, 10, 11} => ~suitable
               /\ row.season = {} => ~suitable

\* a trip that starts in May and ends in June: only the end month counts
C17_Witness ==
    /\ Requested
    /\ params.trip_start_date[2] = 5
    /\ params.trip_end_date[2] = 6
    /\ season_suitable[1]
    /\ ~season_suitable[2]
    /\ season_suitable[3]
    /\ ~season_suitable[4]

\* weight of a category tag in the request, 0 when the request has none
Weight(tag) ==
    IF tag \in DOMAIN params.user_preferences THEN params.user_preferences[tag] ELSE 0

\* sum over the first k tags of rating x weight
RECURSIVE TagSum(_, _)
TagSum(row, k) ==
    IF k = 0 THEN 0 ELSE TagSum(row, k - 1) + row.rating * Weight(row.type[k])

\* C18: the aggregated score of a location is the sum over its tags of
\* rating x weight / 100 (weight 0 for a tag the request does not map),
\* doubled as a whole when the location is season-suitable, and it is never
\* negative.  Scores are held x 200.
C18_AggregatedScore ==
    Requested =>
        \A i \in 1..Len(location_data) :
            LET row == location_data[i]
                sum == TagSum(row, Len(row.type))
            IN /\ aggregated_scores[row.place_id] =
                    2 * (IF season_suitable[row.place_id] THEN 2 * sum ELSE sum)
               /\ aggregated_scores[row.place_id] >= 0

\* two weighted tags summed and doubled in season, one mapped tag out of
\* season, one unmapped tag
C18_Witness ==
    /\ Requested
    /\ season_suitable[3]
    /\ aggregated_scores[3] = 2 * 2 * (4 * 100 + 4 * 50)
    /\ ~season_suitable[2]
    /\ aggregated_scores[2] = 2 * 5 * 100
    /\ season_suitable[1]
    /\ aggregated_scores[1] = 0

\* catalog rows that are neither excluded nor named mandatory
pool ==
    { location_data[i].place_id : i \in
        { j \in 1..Len(location_data) :
            location_data[j].name \notin
                params.excluded_locations \cup params.mandatory_locations } }

\* identifiers of the pool entries in the final selection
taken ==
    { final_locations[i].place_id : i \in (Len(mandatory_df) + 1)..Len(final_locations) }

max_per_day ==
    [p \in PaceNames |-> IF p = "Fast-Paced" THEN 4 ELSE IF p = "Balanced" THEN 3 ELSE 2]

capacity ==
    Min(Cardinality(pool) + Len(mandatory_df), trip_duration * max_per_day[params.pace])

remaining == Max(0, capacity - Len(mandatory_df))

\* twice the final score: x 1.5 for an identifier in specific_interests
FinalScore2(id) ==
    IF id \in params.specific_interests
    THEN 3 * aggregated_scores[id] ELSE 2 * aggregated_scores[id]

\* C19: exactly min(remaining, |pool|) pool entries are taken, all of them
\* from the pool, and no pool entry left out has a strictly higher final
\* score than a taken one; the mandatory rows in front are the catalog rows
\* themselves, in the number mandatory_df has.
C19_TopKByBoostedScore ==
    Selected =>
        /\ Len(final_locations) - Len(mandatory_df) = Min(remaining, Cardinality(pool))
        /\ Cardinality(taken) = Len(final_locations) - Len(mandatory_df)
        /\ taken \subseteq pool
        /\ \A t \in taken, l \in pool \ taken : FinalScore2(l) <= FinalScore2(t)
        /\ SubSeq(final_locations, 1, Len(mandatory_df)) = mandatory_df

\* the boost decides: a taken entry of specific_interests has a lower
\* weighted score than an entry left out, and a mandatory row is present
C19_Witness ==
    /\ Selected
    /\ trip_duration >= 1
    /\ Len(mandatory_df) >= 1
    /\ \E t \in taken, l \in pool \ taken :
        /\ t \in params.specific_interests
        /\ aggregated_scores[t] < aggregated_scores[l]
        /\ FinalScore2(l) < FinalScore2(t)

\* catalog positions of the rows that are named mandatory and not excluded
MandatoryPositions ==
    { j \in 1..Len(location_data) :
        /\ location_data[j].name \in params.mandatory_locations
        /\ location_data[j].name \notin params.excluded_locations }

\* C20: the route starts with the first entry of the final selection: the
\* first mandatory location in catalog order when there is one, otherwise a
\* pool entry of highest final score; it is placed whatever its distances,
\* so for a duration of at least one day a non-empty selection gives an
\* itinerary that begins with it on day 1.
C20_StartingPoint ==
    (Selected /\ final_locations # << >>) =>
        /\ MandatoryPositions # {} =>
            \E j \in MandatoryPositions :
                /\ \A k \in MandatoryPositions : j <= k
                /\ final_locations[1] = location_data[j]
        /\ MandatoryPositions = {} =>
            /\ final_locations[1].place_id \in pool
            /\ \A l \in pool : FinalScore2(l) <= FinalScore2(final_locations[1].place_id)
        /\ pc \in {"loop", "assign", "budget", "returned", "done", "raised"} =>
            ordered_locations[1] = final_locations[1]
        /\ (Assigned /\ trip_duration >= 1) =>
            /\ itinerary # << >>
            /\ itinerary[1] = [loc |-> final_locations[1], day |-> 1]

\* the starting point has no known distance to any other selected location
\* and is the whole itinerary
C20_Witness ==
    /\ pc = "done"
    /\ trip_duration >= 1
    /\ Len(final_locations) >= 3
    /\ MandatoryPositions # {}
    /\ \A i \in 2..Len(final_locations) :
        PairRows(final_locations[1].place_id, final_locations[i].place_id) = {}
    /\ itinerary = << [loc |-> final_locations[1], day |-> 1] >>
    /\ json_result.total_locations = 1

\* the current last-placed location
current_id == ordered_locations[Len(ordered_locations)].place_id

\* positions in the unvisited list with a known distance to the current location
Reachable ==
    { i \in 1..Len(remaining_locations) :
        PairRows(current_id, remaining_locations[i].place_id) # {} }

DistanceTo(i) == KnownDistance(current_id, remaining_locations[i].place_id)

\* a step of the walk that places a location
CommitStep == pc = "loop" /\ ordered_locations' # ordered_locations

\* C21: the location a step commits is an unvisited one with a known
\* distance to the current location, no unvisited location with a known
\* distance is closer, and among the equally close ones it is the earliest
\* in the unvisited list.
C21_GreedyStep ==
    [][ CommitStep =>
          \E k \in Reachable :
              /\ ordered_locations' = Append(ordered_locations, remaining_locations[k])
              /\ \A j \in Reachable : DistanceTo(k) <= DistanceTo(j)
              /\ \A j \in Reachable : DistanceTo(j) = DistanceTo(k) => k <= j
              /\ current_total_distance' = current_total_distance + DistanceTo(k) ]_vars

\* the walk went 1 -> 2 and then chose Ella, scanned before the equally
\* close Arugam Bay
C21_Witness ==
    /\ pc = "loop"
    /\ Len(ordered_locations) = 3
    /\ ordered_locations[2].place_id = 2
    /\ ordered_locations[3].place_id = 4
    /\ remaining_locations # << >>
    /\ remaining_locations[1].place_id = 3
    /\ KnownDistance(2, 3) = KnownDistance(2, 4)

\* the while condition of the walk
Walking ==
    /\ pc = "loop"
    /\ remaining_locations # << >>
    /\ current_total_distance < total_allowed_distance

\* distance of the closest candidate, when there is one
ClosestDistance ==
    DistanceTo(CHOOSE k \in Reachable : \A j \in Reachable : DistanceTo(k) <= DistanceTo(j))

RouteIds == { ordered_locations[i].place_id : i \in 1..Len(ordered_locations) }
UnvisitedIds == { remaining_locations[i].place_id : i \in 1..Len(remaining_locations) }
ItineraryIds == { itinerary[i].loc.place_id : i \in 1..Len(itinerary) }

\* C22: when the accumulated distance plus the distance of the closest
\* candidate is above max_distance_per_day x trip_duration the walk ends
\* with the route and the unvisited list as they are, and no unvisited
\* location is in the route or the itinerary afterwards; when the sum is at
\* most the budget (equal included) the candidate is appended.
C22_BudgetStop ==
    /\ [][ (Walking /\ Reachable # {}) =>
             IF current_total_distance + ClosestDistance > total_allowed_distance
             THEN /\ pc' = "assign"
                  /\ ordered_locations' = ordered_locations
                  /\ remaining_locations' = remaining_locations
             ELSE /\ pc' = "loop"
                  /\ Len(ordered_locations') = Len(ordered_locations) + 1
                  /\ Len(remaining_locations') = Len(remaining_locations) - 1 ]_vars
    /\ []( (LoopDone /\ loop_exit = "budget_stop") =>
             /\ remaining_locations # << >>
             /\ UnvisitedIds \cap RouteIds = {}
             /\ Assigned => UnvisitedIds \cap ItineraryIds = {} )

\* the walk ended on a candidate that did not fit; the rest is dropped
C22_Witness ==
    /\ pc = "done"
    /\ trip_duration >= 1
    /\ loop_exit = "budget_stop"
    /\ Len(ordered_locations) >= 2
    /\ Len(remaining_locations) >= 2
    /\ Len(itinerary) = Len(ordered_locations)

\* a candidate that brought the total exactly to the budget was appended
C22_WitnessExact ==
    /\ pc = "loop"
    /\ Len(ordered_locations) >= 2
    /\ current_total_distance = total_allowed_distance
    /\ current_total_distance > 0

\* C23: when no unvisited location has a known distance to the current
\* location the walk ends with the route and the unvisited list as they
\* are; the unvisited locations stay out of the route and the itinerary,
\* and the call does not raise.
C23_UnreachableStop ==
    /\ [][ (Walking /\ Reachable = {}) =>
             /\ pc' = "assign"
             /\ ordered_locations' = ordered_locations
             /\ remaining_locations' = remaining_locations ]_vars
    /\ []( (LoopDone /\ loop_exit = "no_known_distance") =>
             /\ pc # "raised"
             /\ remaining_locations # << >>
             /\ UnvisitedIds \cap RouteIds = {}
             /\ Assigned => ItineraryIds = RouteIds )

\* a dropped location has a known distance to an earlier route entry, and
\* two dropped locations have a known distance to each other
C23_Witness ==
    /\ pc = "done"
    /\ loop_exit = "no_known_distance"
    /\ Len(ordered_locations) >= 2
    /\ \E r \in UnvisitedIds, e \in RouteIds : PairRows(e, r) # {}
    /\ \E r1 \in UnvisitedIds, r2 \in UnvisitedIds : r1 # r2 /\ PairRows(r1, r2) # {}
    /\ ItineraryIds = RouteIds

FinalIds == { final_locations[i].place_id : i \in 1..Len(final_locations) }

InWalk == pc \in {"loop", "assign", "budget", "returned", "done", "raised"}

\* C24: during and after the walk the route and the unvisited list are
\* disjoint, hold no location twice and together are exactly the final
\* selection; a step of the walk either moves one unvisited location to the
\* end of the route, leaving the rest of both lists as it was, or leaves
\* both lists alone and ends the walk.
C24_IrrevocableCommit ==
    /\ []( InWalk =>
             /\ RouteIds \cap UnvisitedIds = {}
             /\ RouteIds \cup UnvisitedIds = FinalIds
             /\ Cardinality(RouteIds) = Len(ordered_locations)
             /\ Cardinality(UnvisitedIds) = Len(remaining_locations)
             /\ Len(ordered_locations) + Len(remaining_locations) = Len(final_locations) )
    /\ [][ pc = "loop" =>
             \/ \E k \in 1..Len(remaining_locations) :
                  /\ ordered_locations' = Append(ordered_locations, remaining_locations[k])
                  /\ remaining_locations' =
                        SubSeq(remaining_locations, 1, k - 1)
                        \o SubSeq(remaining_locations, k + 1, Len(remaining_locations))
                  /\ pc' = "loop"
             \/ /\ ordered_locations' = ordered_locations
                /\ remaining_locations' = remaining_locations
                /\ pc' = "assign" ]_vars

\* three locations placed, out of selection order, one still unvisited
C24_Witness ==
    /\ pc = "loop"
    /\ Len(ordered_locations) = 3
    /\ Len(remaining_locations) = 1
    /\ ordered_locations \o remaining_locations # final_locations
    /\ current_total_distance > 0

\* the budget test of lines 363-364 fails for the closest candidate
ClosestExceeds ==
    IF Reachable = {} THEN FALSE
    ELSE current_total_distance + ClosestDistance > total_allowed_distance

\* the four ways the walk ends
EndCondition ==
    \/ remaining_locations = << >>
    \/ current_total_distance >= total_allowed_distance
    \/ Reachable = {}
    \/ ClosestExceeds

\* C25: the walk always ends.  A step that stays in the loop shortens the
\* unvisited list by one, so there are at most |selection| - 1 commits; the
\* walk ends on a step exactly when the unvisited list is empty, the
\* accumulated distance has reached the budget, the closest candidate would
\* exceed it, or no candidate has a known distance.
C25_WalkTerminates ==
    /\ (pc = "loop") ~> (pc = "assign")
    /\ []( InWalk => Len(ordered_locations) - 1 <= Len(final_locations) - 1 )
    /\ [][ pc = "loop" =>
             /\ pc' = "loop" => /\ ~EndCondition
                                /\ Len(remaining_locations') = Len(remaining_locations) - 1
             /\ pc' = "assign" => EndCondition ]_vars

\* the longest walk: every other selected location was committed
C25_Witness ==
    /\ pc = "assign"
    /\ loop_exit = "unvisited_empty"
    /\ Len(final_locations) = 4
    /\ Len(ordered_locations) = 4
    /\ current_total_distance < total_allowed_distance

\* computed day of the entry at 0-based position idx0 of a route of n
\* entries on a trip of d days is within the trip
DayWithinTrip(n, d, idx0) ==
    IF LocationsPerDay(n, d) = 0 THEN FALSE
    ELSE DayKept(DayOf(idx0, LocationsPerDay(n, d)), d)

\* C26 (as claimed): there is a route whose length is not a multiple of the
\* duration (at least one day) with an entry whose computed day exceeds the
\* duration, so that the entry is dropped: among the tabulated routes, or
\* the route of the call at hand.
C26_OverflowExists ==
    \/ \E n \in 1..MaxRouteLength, d \in 1..MaxDuration :
        /\ n % d # 0
        /\ \E idx0 \in 0..(n - 1) : ~DayWithinTrip(n, d, idx0)
    \/ /\ Assigned
       /\ trip_duration >= 1
       /\ Len(itinerary) < Len(ordered_locations)

\* C26 (amended): for a duration of at least one day no computed day
\* exceeds the duration, whether or not the route length is a multiple of
\* it, and no route entry is dropped; entries are dropped only when the
\* duration is below one, and then all of them are.
C26_NoOverflow ==
    /\ \A n \in 1..MaxRouteLength, d \in 1..MaxDuration :
        \A idx0 \in 0..(n - 1) : DayWithinTrip(n, d, idx0)
    /\ (Assigned /\ trip_duration >= 1) =>
        /\ Len(itinerary) = Len(ordered_locations)
        /\ \A i \in 1..Len(itinerary) : itinerary[i].day <= trip_duration
    /\ (Assigned /\ trip_duration < 1) => itinerary = << >>

\* three entries on a two-day trip: all kept, the last one on day 2
C26_Witness ==
    /\ pc = "done"
    /\ trip_duration = 2
    /\ Len(ordered_locations) = 3
    /\ Len(itinerary) = 3
    /\ itinerary[3].day = 2
    /\ itinerary[2].day = 1

\* C27: for a duration of at least one day the itinerary is the route of
\* the walk, entry by entry in the same order, its day numbers never
\* decrease, and total_locations is the length of the route.
C27_AssignmentTotal ==
    (Assigned /\ trip_duration >= 1) =>
        /\ [ i \in 1..Len(itinerary) |-> itinerary[i].loc ] = ordered_locations
        /\ \A i \in 1..Len(itinerary), j \in 1..Len(itinerary) :
            i <= j => itinerary[i].day <= itinerary[j].day
        /\ pc = "done" => json_result.total_locations = Len(ordered_locations)

\* four entries over three days, the last on the second day
C27_Witness ==
    /\ pc = "done"
    /\ trip_duration = 3
    /\ Len(ordered_locations) = 4
    /\ json_result.total_locations = 4
    /\ itinerary[1].day = 1
    /\ itinerary[4].day = 2

\* max_distance_per_day x trip_duration_days
distance_budget == distance_per_day_km * trip_duration

\* C28: for a duration of at least one day the looked-up distances
\* between consecutive itinerary entries add up to at most
\* max_distance_per_day x trip_duration_days, also when the loop's counter
\* has gone past the budget on a candidate that was not added.
C28_RouteWithinBudget ==
    (Assigned /\ trip_duration >= 1) =>
        /\ total_distance <= distance_budget
        /\ pc = "done" =>
            json_result.budget_breakdown_per_person.transportation.num
                <= distance_budget * 20

\* the counter is past the budget, the distance of the itinerary is not
C28_Witness ==
    /\ pc = "done"
    /\ trip_duration >= 1
    /\ loop_exit = "budget_stop"
    /\ current_total_distance > distance_budget
    /\ total_distance > 0
    /\ total_distance <= distance_budget
    /\ Len(itinerary) >= 2

\* what the walk has added to its counter for locations it appended: the
\* counter, less the candidate a budget stop counted without appending
committed_distance ==
    IF loop_exit = "budget_stop"
    THEN current_total_distance - ClosestDistance
    ELSE current_total_distance

\* C29: consecutive entries of the returned itinerary always have a row in
\* the distance table, so no leg counts 0 for want of a row, and the total
\* distance of the budget estimate and of to_json is the sum of the
\* distances the walk committed.
C29_LegsKnown ==
    Assigned =>
        /\ \A i \in 1..(Len(itinerary) - 1) :
            PairRows(itinerary[i].loc.place_id, itinerary[i + 1].loc.place_id) # {}
        /\ trip_duration >= 1 =>
            /\ RouteDistance(distance_data, itinerary) = committed_distance
            /\ pc = "done" =>
                /\ json_result.budget_breakdown_per_person.transportation.num
                       = committed_distance * 20
                /\ \A i \in 1..(Len(itinerary) - 1) :
                    json_result.itinerary[i].distance_to_next_km =
                        KnownDistance(itinerary[i].loc.place_id,
                                      itinerary[i + 1].loc.place_id)

\* a selection with a pair that has no row: the walk stopped short, and
\* the legs of its itinerary are all recorded
C29_Witness ==
    /\ pc = "done"
    /\ Len(itinerary) >= 2
    /\ remaining_locations # << >>
    /\ committed_distance > 0
    /\ RouteDistance(distance_data, itinerary) = committed_distance
    /\ \E a \in FinalIds, b \in FinalIds : a # b /\ PairRows(a, b) = {}

RECURSIVE RouteLegsUpTo(_)
RouteLegsUpTo(k) ==
    IF k = 0 THEN 0
    ELSE RouteLegsUpTo(k - 1)
         + KnownDistance(ordered_locations[k].place_id, ordered_locations[k + 1].place_id)

\* distance along the route the walk has built
route_distance ==
    IF ordered_locations = << >> THEN 0 ELSE RouteLegsUpTo(Len(ordered_locations) - 1)

\* C30: after a stop on a candidate that would exceed the budget, no
\* unvisited location with a known distance to the current location fits
\* the budget: the distance of the route plus its distance is above
\* max_distance_per_day x trip_duration_days for every one of them.
C30_BudgetStopLosesNothing ==
    (LoopDone /\ loop_exit = "budget_stop") =>
        /\ Reachable # {}
        /\ \A k \in Reachable : route_distance + DistanceTo(k) > distance_budget

\* the stop left two locations with different known distances unvisited
C30_Witness ==
    /\ pc = "done"
    /\ loop_exit = "budget_stop"
    /\ trip_duration >= 1
    /\ \E j \in Reachable, k \in Reachable : DistanceTo(j) < DistanceTo(k)
    /\ route_distance > 0
    /\ route_distance < distance_budget

====
